---- MODULE Spec2Model ----
(***************************************************************************)
(* Verification model of the groupcache primitives:                        *)
(*   singleflight.Group  (src/singleflight/singleflight.go, lines 17-75)    *)
(*   lru.Cache           (src/lru/lru.go)                                   *)
(*   consistenthash.Map  (src/singleflight/singleflight.go, lines 93-167)   *)
(* Each primitive has its own specification over its own variables; the     *)
(* variables of the other primitives stay at their initial values.          *)
(***************************************************************************)
EXTENDS Integers, Sequences, FiniteSets, TLC

(***************************************************************************)
(* Bounds of the model.                                                     *)
(***************************************************************************)
\* number of goroutines calling Group.Do
NumCallers == 2
\* number of Do calls made in all, by all the goroutines together
MaxCalls == 2

Callers == 1..NumCallers
\* keys passed to Group.Do
GKeys == {"a", "b"}
\* error results the supplied operation may produce ("nil" is the nil error)
Errors == {"nil", "boom"}
\* nobody holds the mutex / no call record
NoOne == 0
NoCall == 0
\* zero value of call.val (nil interface)
NilVal == 0

\* largest MaxEntries a Cache is created with
MaxCap == 2
\* keys and values passed to Cache.Add; one key more than the largest capacity
CKeys == 1..(MaxCap + 1)
Values == {"x", "y"}
\* zero value of a Get result (nil interface), no key, no list element
NilValue == "nil"
NoKey == 0
NoElem == 0

\* number of node identifiers passed to Map.Add in all
MaxNodes == 3
\* node identifiers, and the argument lists of one Map.Add call
RNodes == {"a", "b"}
NodeLists == {<<>>} \cup {<<n>> : n \in RNodes} \cup {<<n, o>> : n, o \in RNodes}
\* replica counts a Map is created with
ReplicaCounts == -1..2
\* keys passed to Map.Get: the name of a virtual point, and another string
RKeys == {"0a", "k"}
\* values of the hash function: as many as a ring can have virtual points
HashValues == 0..3
\* the result of Get on an empty ring
NoNode == ""

VARIABLES
    mu,       \* Group.mu: NoOne, or the goroutine holding the lock
    m,        \* Group.m: [made |-> is the map non-nil, tab |-> key -> call record]
    calls,    \* heap of call records, in allocation order: [wg, val, err]
    pc,       \* position of each goroutine inside Do
    key,      \* key argument of the goroutine's current Do call
    c,        \* local variable c of Do: index of a call record, or NoCall
    ret,      \* (value, error) pair returned by the goroutine's last Do call
    ncalls,   \* number of Do calls the goroutine has begun
    count,    \* per key, the number of invocations of the supplied operation
    ran,      \* did the goroutine invoke the supplied operation in this call
    overlap,  \* goroutines whose Do call for the same key overlapped this one
    entry     \* the registry as this call began: [len, live, signalled]

gvars == <<mu, m, calls, pc, key, c, ret, ncalls, count, ran, overlap, entry>>

VARIABLES
    MaxEntries,  \* Cache.MaxEntries
    OnEvicted,   \* is Cache.OnEvicted non-nil
    ll,          \* Cache.ll: [nil |-> is the pointer nil, l |-> elements, front first]
    cache,       \* Cache.cache: [nil |-> is the map nil, tab |-> key -> element]
    elems,       \* heap of list elements: element -> its entry [key, value]
    cpc,         \* position inside a call: "idle" between calls, "evict" at line 71
                 \* of Add, "clear" at line 139 of Clear
    last,        \* the call in progress or last completed: [op, key, value, ok];
                 \* ok is the ok of the map lookup of Add (line 62) and Get (line 81)
    evicted,     \* the OnEvicted invocations made by that call, in order
    touch,       \* keys present, ordered by their last Add or Get hit, oldest first
    got,         \* TrackedSpec only: key of the latest Get hit on a cache of two or
                 \* more entries, still present and with no eviction since; or NoKey
    added        \* AddGetSpec only: the keys passed to Add so far, each with the
                 \* value of its latest Add

cvars == <<MaxEntries, OnEvicted, ll, cache, elems, cpc, last, evicted, touch>>

VARIABLES
    hash,      \* Map.hash: the hash function, on the strings it is applied to;
               \* a value is the int made of the uint32 result (lines 138, 154)
    replicas,  \* Map.replicas
    keys,      \* Map.keys
    hashMap,   \* Map.hashMap
    given,     \* the node identifiers passed to Map.Add so far, in order
    rlast      \* the last call made on the Map: [op, nargs, key, node]

hvars == <<hash, replicas, keys, hashMap, given, rlast>>

avars == <<cvars, got, added, hvars>>

vars == <<gvars, cvars, got, added, hvars>>

(***************************************************************************)
(* Go map operations on Group.m.                                            *)
(***************************************************************************)
\* a lookup that never finds the key
MapHasNever(mm, k) == FALSE

\* c, ok := g.m[key]  -- the ok part
MapHas(mm, k) == mm.made /\ k \in DOMAIN mm.tab

\* g.m[key] = c
MapPut(mm, k, r) ==
    [made |-> TRUE, tab |-> [x \in (DOMAIN mm.tab) \cup {k} |-> IF x = k THEN r ELSE mm.tab[x]]]

\* a delete that removes nothing
MapDeleteNothing(mm, k) == mm

\* delete(g.m, key)
MapDelete(mm, k) ==
    [made |-> mm.made, tab |-> [x \in (DOMAIN mm.tab) \ {k} |-> mm.tab[x]]]

\* if g.m == nil { g.m = make(map[string]*call) }
MapMake(mm) == IF mm.made THEN mm ELSE [made |-> TRUE, tab |-> <<>>]

\* c := new(call); c.wg.Add(1)
NewCall == [wg |-> 1, val |-> NilVal, err |-> "nil"]

\* a goroutine is inside Do: it has called Do and has not returned
InCall(p) == pc[p] \notin {"idle", "done"}

RECURSIVE SumOver(_, _)
\* sum of f[x] over the x of S
SumOver(f, S) == IF S = {} THEN 0
                 ELSE LET x == CHOOSE y \in S : TRUE IN f[x] + SumOver(f, S \ {x})

\* number of Do calls begun so far
TotalCalls == SumOver(ncalls, Callers)

\* what a goroutine calling Do(k, fn) finds: the number of records allocated so
\* far, the record registered for k (or NoCall) and whether that record's
\* completion has been signalled
Snapshot(k) ==
    LET r == IF MapHas(m, k) THEN m.tab[k] ELSE NoCall
    IN  [len |-> Len(calls), live |-> r,
         signalled |-> IF r = NoCall THEN FALSE ELSE calls[r].wg = 0]

\* a Wait that does not block
WaitReturnsAtOnce(r) == TRUE

\* c.wg.Wait() returns: the counter of the record's WaitGroup is zero
WaitReturns(r) == calls[r].wg = 0

\* a return that replaces the error of the record by nil
ResultNoError(r) == <<calls[r].val, "nil">>

\* the (value, error) pair read from a call record: return c.val, c.err
Result(r) == <<calls[r].val, calls[r].err>>

(***************************************************************************)
(* Group.Do, one action per step between synchronisation points.            *)
(***************************************************************************)
\* a goroutine calls Do(k, fn)
DoCall(p, k) ==
    /\ pc[p] \in {"idle", "done"}
    /\ TotalCalls < MaxCalls
    /\ pc' = [pc EXCEPT ![p] = "lock"]
    /\ key' = [key EXCEPT ![p] = k]
    /\ c' = [c EXCEPT ![p] = NoCall]
    /\ ret' = [ret EXCEPT ![p] = <<NilVal, "nil">>]
    /\ ncalls' = [ncalls EXCEPT ![p] = @ + 1]
    /\ ran' = [ran EXCEPT ![p] = FALSE]
    /\ LET live == {q \in Callers \ {p} : InCall(q) /\ key[q] = k}
       IN  overlap' = [q \in Callers |->
                          IF q = p THEN live
                          ELSE IF q \in live THEN overlap[q] \cup {p}
                          ELSE overlap[q]]
    /\ entry' = [entry EXCEPT ![p] = Snapshot(k)]
    /\ UNCHANGED <<mu, m, calls, count>>

\* line 47: g.mu.Lock()
DoLock(p) ==
    /\ pc[p] = "lock"
    /\ mu = NoOne
    /\ mu' = p
    /\ pc' = [pc EXCEPT ![p] = "check"]
    /\ UNCHANGED <<m, calls, key, c, ret, ncalls, count, ran, overlap, entry>>

\* lines 48-53: the key is registered: c = g.m[key]; g.mu.Unlock()
DoAttach(p) ==
    /\ pc[p] = "check"
    /\ MapHas(MapMake(m), key[p])
    /\ m' = MapMake(m)
    /\ c' = [c EXCEPT ![p] = m.tab[key[p]]]
    /\ mu' = NoOne
    /\ pc' = [pc EXCEPT ![p] = "wait"]
    /\ UNCHANGED <<calls, key, ret, ncalls, count, ran, overlap, entry>>

\* a registration that returns to the caller's code with the mutex still held
DoRegisterKeepLock(p) ==
    /\ pc[p] = "check"
    /\ ~MapHas(MapMake(m), key[p])
    /\ calls' = Append(calls, NewCall)
    /\ c' = [c EXCEPT ![p] = Len(calls) + 1]
    /\ m' = MapPut(MapMake(m), key[p], Len(calls) + 1)
    /\ pc' = [pc EXCEPT ![p] = "call"]
    /\ UNCHANGED <<mu, key, ret, ncalls, count, ran, overlap, entry>>

\* lines 48-52, 58-61: no record: c := new(call); c.wg.Add(1); g.m[key] = c; Unlock
DoRegister(p) ==
    /\ pc[p] = "check"
    /\ ~MapHas(MapMake(m), key[p])
    /\ calls' = Append(calls, NewCall)
    /\ c' = [c EXCEPT ![p] = Len(calls) + 1]
    /\ m' = MapPut(MapMake(m), key[p], Len(calls) + 1)
    /\ mu' = NoOne
    /\ pc' = [pc EXCEPT ![p] = "call"]
    /\ UNCHANGED <<key, ret, ncalls, count, ran, overlap, entry>>

\* lines 54-55: c.wg.Wait(); return c.val, c.err
DoWait(p) ==
    /\ pc[p] = "wait"
    /\ WaitReturns(c[p])
    /\ ret' = [ret EXCEPT ![p] = Result(c[p])]
    /\ pc' = [pc EXCEPT ![p] = "done"]
    /\ UNCHANGED <<mu, m, calls, key, c, ncalls, count, ran, overlap, entry>>

\* line 63: fn() is entered; the operation counts its invocations
FnEnter(p) ==
    /\ pc[p] = "call"
    /\ count' = [count EXCEPT ![key[p]] = @ + 1]
    /\ ran' = [ran EXCEPT ![p] = TRUE]
    /\ pc' = [pc EXCEPT ![p] = "infn"]
    /\ UNCHANGED <<mu, m, calls, key, c, ret, ncalls, overlap, entry>>

\* line 63: fn() returns (its invocation number, e); c.val, c.err = ...
FnReturn(p, e) ==
    /\ pc[p] = "infn"
    /\ calls' = [calls EXCEPT ![c[p]].val = count[key[p]], ![c[p]].err = e]
    /\ pc' = [pc EXCEPT ![p] = "signal"]
    /\ UNCHANGED <<mu, m, key, c, ret, ncalls, count, ran, overlap, entry>>

\* a completion that is never signalled
DoDoneNoSignal(p) ==
    /\ pc[p] = "signal"
    /\ pc' = [pc EXCEPT ![p] = "relock"]
    /\ UNCHANGED <<mu, m, calls, key, c, ret, ncalls, count, ran, overlap, entry>>

\* line 65: c.wg.Done()
DoDone(p) ==
    /\ pc[p] = "signal"
    /\ calls' = [calls EXCEPT ![c[p]].wg = @ - 1]
    /\ pc' = [pc EXCEPT ![p] = "relock"]
    /\ UNCHANGED <<mu, m, key, c, ret, ncalls, count, ran, overlap, entry>>

\* line 70: g.mu.Lock()
DoRelock(p) ==
    /\ pc[p] = "relock"
    /\ mu = NoOne
    /\ mu' = p
    /\ pc' = [pc EXCEPT ![p] = "delete"]
    /\ UNCHANGED <<m, calls, key, c, ret, ncalls, count, ran, overlap, entry>>

\* lines 71-72: delete(g.m, key); g.mu.Unlock()
DoDelete(p) ==
    /\ pc[p] = "delete"
    /\ m' = MapDelete(m, key[p])
    /\ mu' = NoOne
    /\ pc' = [pc EXCEPT ![p] = "return"]
    /\ UNCHANGED <<calls, key, c, ret, ncalls, count, ran, overlap, entry>>

\* line 74: return c.val, c.err
DoReturn(p) ==
    /\ pc[p] = "return"
    /\ ret' = [ret EXCEPT ![p] = Result(c[p])]
    /\ pc' = [pc EXCEPT ![p] = "done"]
    /\ UNCHANGED <<mu, m, calls, key, c, ncalls, count, ran, overlap, entry>>


(***************************************************************************)
(* container/list operations used by Cache, on a list held front first.     *)
(***************************************************************************)
\* the elements of a list
ListElems(l) == {l[i] : i \in 1..Len(l)}

\* a MoveToFront that leaves the list as it is
ListMoveNowhere(l, e) == l

\* l.MoveToFront(e): nothing when e is not an element of l
ListMoveToFront(l, e) ==
    IF e \notin ListElems(l) THEN l
    ELSE <<e>> \o SelectSeq(l, LAMBDA x : x # e)

\* l.PushFront(v)
ListPushFront(l, e) == <<e>> \o l

\* l.Remove(e)
ListRemove(l, e) == SelectSeq(l, LAMBDA x : x # e)

\* the first element instead of the last
ListFront(l) == IF Len(l) = 0 THEN NoElem ELSE l[1]

\* l.Back(): the last element, nil for an empty list
ListBack(l) == IF Len(l) = 0 THEN NoElem ELSE l[Len(l)]

\* the address of a freshly allocated element, for an entry of key k: one no
\* live element has (the allocator gives the address k when it is free)
NewElem(k) ==
    IF k \notin DOMAIN elems THEN k
    ELSE CHOOSE e \in 1..(Cardinality(DOMAIN elems) + 1) : e \notin DOMAIN elems

\* a sequence without the occurrences of x
Without(s, x) == SelectSeq(s, LAMBDA y : y # x)

\* the orders in which a range over the map S may visit its keys
Orders(S) == {f \in [1..Cardinality(S) -> S] : \A i, j \in DOMAIN f : f[i] = f[j] => i = j}

(***************************************************************************)
(* lru.Cache                                                                *)
(***************************************************************************)
\* the keys a Get finds
Present == IF cache.nil THEN {} ELSE DOMAIN cache.tab

\* the value a Get of a present key returns
ValueOf(k) == elems[cache.tab[k]].value

\* Cache.Len
CacheLen == IF cache.nil THEN 0 ELSE Len(ll.l)

\* c.cache after lines 57-60 of Add
AddCache == IF cache.nil THEN [nil |-> FALSE, tab |-> <<>>] ELSE cache

\* c.ll after lines 57-60 of Add
AddList == IF cache.nil THEN [nil |-> FALSE, l |-> <<>>] ELSE ll

\* a removal that does not invoke the callback
CallbackNever(log, kv) == log

\* the OnEvicted invocations so far, and one more when the callback is set
Callback(log, kv) == IF OnEvicted THEN Append(log, <<kv.key, kv.value>>) ELSE log

\* a removeElement that leaves the key in the map
removeElementKeepIndex(e, log) ==
    LET kv == elems[e]
    IN  /\ ll' = [ll EXCEPT !.l = ListRemove(@, e)]
        /\ evicted' = Callback(log, kv)
        /\ touch' = Without(touch, kv.key)
        /\ UNCHANGED <<cache, elems>>

\* Cache.removeElement(e), lines 112-120: e leaves the list and the map, the
\* callback is invoked; log holds the invocations the call has made so far
removeElement(e, log) ==
    LET kv == elems[e]
    IN  /\ ll' = [ll EXCEPT !.l = ListRemove(@, e)]
        /\ cache' = [cache EXCEPT !.tab = [x \in (DOMAIN @) \ {kv.key} |-> @[x]]]
        /\ elems' = [x \in (DOMAIN elems) \ {e} |-> elems[x]]
        /\ evicted' = Callback(log, kv)
        /\ touch' = Without(touch, kv.key)

\* a capacity test for which MaxEntries = 0 is a capacity of no entry
OverCapacityAlways(n) == n > MaxEntries

\* line 71: c.MaxEntries != 0 && c.ll.Len() > c.MaxEntries
OverCapacity(n) == MaxEntries # 0 /\ n > MaxEntries

\* Cache.Add(k, v), lines 56-71: the update of a present key, or the insertion
\* of a new one up to the test of the capacity
Add(k, v) ==
    /\ cpc = "idle"
    /\ last' = [op |-> "Add", key |-> k, value |-> v, ok |-> k \in DOMAIN AddCache.tab]
    /\ evicted' = <<>>
    /\ touch' = Append(Without(touch, k), k)
    /\ IF k \in DOMAIN AddCache.tab
       THEN LET ee == AddCache.tab[k]
            IN  /\ ll' = [AddList EXCEPT !.l = ListMoveToFront(@, ee)]
                /\ elems' = [elems EXCEPT ![ee].value = v]
                /\ cache' = AddCache
                /\ cpc' = "idle"
       ELSE LET ele == NewElem(k)
            IN  /\ ll' = [AddList EXCEPT !.l = ListPushFront(@, ele)]
                /\ elems' = [x \in (DOMAIN elems) \cup {ele} |->
                                IF x = ele THEN [key |-> k, value |-> v] ELSE elems[x]]
                /\ cache' = [AddCache EXCEPT !.tab =
                                [x \in (DOMAIN @) \cup {k} |-> IF x = k THEN ele ELSE @[x]]]
                /\ cpc' = IF OverCapacity(Len(ll'.l)) THEN "evict" ELSE "idle"
    /\ UNCHANGED <<MaxEntries, OnEvicted>>

\* a RemoveOldest that removes nothing
DoRemoveNothing(log) ==
    /\ evicted' = log
    /\ UNCHANGED <<ll, cache, elems, touch>>

\* Cache.RemoveOldest, lines 102-110, as an effect on the cache
DoRemoveOldest(log) ==
    IF cache.nil \/ ListBack(ll.l) = NoElem
    THEN /\ evicted' = log
         /\ UNCHANGED <<ll, cache, elems, touch>>
    ELSE removeElement(ListBack(ll.l), log)

\* Cache.Add, lines 71-74: over capacity, c.RemoveOldest() and return
AddEvict ==
    /\ cpc = "evict"
    /\ DoRemoveOldest(evicted)
    /\ cpc' = "idle"
    /\ UNCHANGED <<MaxEntries, OnEvicted, last>>

\* Cache.Get(k), lines 77-87
Get(k) ==
    /\ cpc = "idle"
    /\ evicted' = <<>>
    /\ IF ~cache.nil /\ k \in DOMAIN cache.tab
       THEN LET ele == cache.tab[k]
            IN  /\ ll' = [ll EXCEPT !.l = ListMoveToFront(@, ele)]
                /\ last' = [op |-> "Get", key |-> k, value |-> elems[ele].value, ok |-> TRUE]
                /\ touch' = Append(Without(touch, k), k)
       ELSE /\ last' = [op |-> "Get", key |-> k, value |-> NilValue, ok |-> FALSE]
            /\ UNCHANGED <<ll, touch>>
    /\ UNCHANGED <<MaxEntries, OnEvicted, cache, elems, cpc>>

\* a Remove that removes the oldest entry when the key is absent
RemoveOrOldest(k) ==
    /\ cpc = "idle"
    /\ last' = [op |-> "Remove", key |-> k, value |-> NilValue, ok |-> FALSE]
    /\ IF ~cache.nil /\ k \in DOMAIN cache.tab
       THEN removeElement(cache.tab[k], <<>>)
       ELSE DoRemoveOldest(<<>>)
    /\ UNCHANGED <<MaxEntries, OnEvicted, cpc>>

\* Cache.Remove(k), lines 91-98
Remove(k) ==
    /\ cpc = "idle"
    /\ last' = [op |-> "Remove", key |-> k, value |-> NilValue, ok |-> FALSE]
    /\ IF ~cache.nil /\ k \in DOMAIN cache.tab
       THEN removeElement(cache.tab[k], <<>>)
       ELSE /\ evicted' = <<>>
            /\ UNCHANGED <<ll, cache, elems, touch>>
    /\ UNCHANGED <<MaxEntries, OnEvicted, cpc>>

\* Cache.RemoveOldest(), lines 102-110
RemoveOldest ==
    /\ cpc = "idle"
    /\ last' = [op |-> "RemoveOldest", key |-> NoKey, value |-> NilValue, ok |-> FALSE]
    /\ DoRemoveOldest(<<>>)
    /\ UNCHANGED <<MaxEntries, OnEvicted, cpc>>

\* a range that invokes nothing
ClearLogNone(order) == <<>>

\* lines 134-137: the OnEvicted invocations of a range that visits the keys of
\* the map in this order
ClearLog(order) ==
    [i \in 1..Len(order) |->
        <<elems[cache.tab[order[i]]].key, elems[cache.tab[order[i]]].value>>]

\* Cache.Clear(), lines 132-138: the callback for each entry of the map, in the
\* order the range visits them
Clear ==
    /\ cpc = "idle"
    /\ last' = [op |-> "Clear", key |-> NoKey, value |-> NilValue, ok |-> FALSE]
    /\ IF OnEvicted
       THEN \E order \in Orders(DOMAIN cache.tab) : evicted' = ClearLog(order)
       ELSE evicted' = <<>>
    /\ cpc' = "clear"
    /\ UNCHANGED <<MaxEntries, OnEvicted, ll, cache, elems, touch>>

\* Cache.Clear(), lines 139-140: c.ll = nil; c.cache = nil
ClearReset ==
    /\ cpc = "clear"
    /\ ll' = [nil |-> TRUE, l |-> <<>>]
    /\ cache' = [nil |-> TRUE, tab |-> <<>>]
    /\ elems' = <<>>
    /\ touch' = <<>>
    /\ cpc' = "idle"
    /\ UNCHANGED <<MaxEntries, OnEvicted, last, evicted>>

\* the fields of a Cache: New(n) (lines 47-53) when made, else the literal
\* &Cache{MaxEntries: n}; with or without OnEvicted set
CacheCreated(n, made, cb) ==
    /\ MaxEntries = n
    /\ OnEvicted = cb
    /\ ll = [nil |-> ~made, l |-> <<>>]
    /\ cache = [nil |-> ~made, tab |-> <<>>]
    /\ elems = <<>>
    /\ cpc = "idle"
    /\ last = [op |-> "New", key |-> NoKey, value |-> NilValue, ok |-> FALSE]
    /\ evicted = <<>>
    /\ touch = <<>>
    /\ got = NoKey
    /\ added = <<>>

(***************************************************************************)
(* consistenthash.Map                                                       *)
(***************************************************************************)
Digits == <<"0", "1", "2", "3", "4", "5", "6", "7", "8", "9">>

RECURSIVE Itoa(_)
\* strconv.Itoa(i), for i >= 0
Itoa(i) == IF i < 10 THEN Digits[i + 1] ELSE Itoa(i \div 10) \o Digits[(i % 10) + 1]

\* line 138: the string hashed for replica i of a node: strconv.Itoa(i) + key
PointName(i, node) == Itoa(i) \o node

\* the strings the hash function of a Map of r replicas is applied to
HashInputs(r) == {PointName(i, n) : i \in 0..(r - 1), n \in RNodes} \cup RKeys

\* m.hashMap[hash] = key
HashMapSet(hm, h, node) == [x \in (DOMAIN hm) \cup {h} |-> IF x = h THEN node ELSE hm[x]]

RECURSIVE AddReplicas(_, _, _)
\* lines 137-141: the inner loop of Add from replica i on, on st = [keys, hashMap]
AddReplicas(st, node, i) ==
    IF ~(i < replicas) THEN st
    ELSE LET h == hash[PointName(i, node)]
         IN  AddReplicas([keys |-> Append(st.keys, h),
                          hashMap |-> HashMapSet(st.hashMap, h, node)], node, i + 1)

RECURSIVE AddKeys(_, _)
\* lines 136-142: the outer loop of Add over its arguments
AddKeys(st, nodes) ==
    IF nodes = <<>> THEN st
    ELSE AddKeys(AddReplicas(st, Head(nodes), 0), Tail(nodes))

\* a sort that leaves the slice as it is
SortNothing(s) == s

RECURSIVE SortInts(_)
\* sort.Ints(s): the elements of s in ascending order
SortInts(s) ==
    IF s = <<>> THEN <<>>
    ELSE LET rest == SortInts(Tail(s))
             n == Cardinality({i \in 1..Len(rest) : rest[i] <= Head(s)})
         IN  SubSeq(rest, 1, n) \o <<Head(s)>> \o SubSeq(rest, n + 1, Len(rest))

\* a search that always falls off the end
SearchEnd(i, j, h) == j

RECURSIVE Search(_, _, _)
\* sort.Search(len(m.keys), func(i) { m.keys[i] >= hash }), from the bounds
\* i, j of its binary search on; the indices count from 0
Search(i, j, h) ==
    IF ~(i < j) THEN i
    ELSE LET mid == (i + j) \div 2
         IN  IF ~(keys[mid + 1] >= h) THEN Search(mid + 1, j, h) ELSE Search(i, mid, h)

\* an IsEmpty that is always true
IsEmptyAlways == TRUE

\* Map.IsEmpty(), lines 129-131
IsEmpty == Len(keys) = 0

\* the node Map.Get(key) returns, lines 148-167
GetNode(k) ==
    IF IsEmpty THEN NoNode
    ELSE LET idx == Search(0, Len(keys), hash[k])
         IN  hashMap[keys[(IF idx = Len(keys) THEN 0 ELSE idx) + 1]]

\* Map.Add(nodes...), lines 134-145
RingAdd(nodes) ==
    /\ Len(given) + Len(nodes) <= MaxNodes
    /\ LET st == AddKeys([keys |-> keys, hashMap |-> hashMap], nodes)
       IN  /\ keys' = SortInts(st.keys)
           /\ hashMap' = st.hashMap
    /\ given' = given \o nodes
    /\ rlast' = [op |-> "Add", nargs |-> Len(nodes), key |-> "", node |-> NoNode]
    /\ UNCHANGED <<hash, replicas>>

\* Map.Get(key), lines 148-167
RingGet(k) ==
    /\ rlast' = [op |-> "Get", nargs |-> 0, key |-> k, node |-> GetNode(k)]
    /\ UNCHANGED <<hash, replicas, keys, hashMap, given>>

\* New(r, fn), lines 113-126
RingNew(r, fn) ==
    /\ hash = fn
    /\ replicas = r
    /\ keys = <<>>
    /\ hashMap = <<>>
    /\ given = <<>>
    /\ rlast = [op |-> "New", nargs |-> 0, key |-> "", node |-> NoNode]

\* var g Group: the zero value, g.m nil, no goroutine inside Do
GroupInit ==
    /\ mu = NoOne
    /\ m = [made |-> FALSE, tab |-> <<>>]
    /\ calls = <<>>
    /\ pc = [p \in Callers |-> "idle"]
    /\ key = [p \in Callers |-> "a"]
    /\ c = [p \in Callers |-> NoCall]
    /\ ret = [p \in Callers |-> <<NilVal, "nil">>]
    /\ ncalls = [p \in Callers |-> 0]
    /\ count = [k \in GKeys |-> 0]
    /\ ran = [p \in Callers |-> FALSE]
    /\ overlap = [p \in Callers |-> {}]
    /\ entry = [p \in Callers |-> [len |-> 0, live |-> NoCall, signalled |-> FALSE]]

Init == GroupInit /\ CacheCreated(0, TRUE, FALSE) /\ RingNew(0, [s \in HashInputs(0) |-> 0])

Next ==
    \/ \E p \in Callers, k \in GKeys : DoCall(p, k) /\ UNCHANGED avars
    \/ \E p \in Callers : DoLock(p) /\ UNCHANGED avars
    \/ \E p \in Callers : DoAttach(p) /\ UNCHANGED avars
    \/ \E p \in Callers : DoRegister(p) /\ UNCHANGED avars
    \/ \E p \in Callers : DoWait(p) /\ UNCHANGED avars
    \/ \E p \in Callers : FnEnter(p) /\ UNCHANGED avars
    \/ \E p \in Callers, e \in Errors : FnReturn(p, e) /\ UNCHANGED avars
    \/ \E p \in Callers : DoDone(p) /\ UNCHANGED avars
    \/ \E p \in Callers : DoRelock(p) /\ UNCHANGED avars
    \/ \E p \in Callers : DoDelete(p) /\ UNCHANGED avars
    \/ \E p \in Callers : DoReturn(p) /\ UNCHANGED avars

Spec == Init /\ [][Next]_vars

\* a step of goroutine p inside Do, other than the return of an operation that
\* was supplied for a key of H (an operation that may hang)
Step(p, H) ==
    \/ DoLock(p) \/ DoAttach(p) \/ DoRegister(p) \/ DoWait(p) \/ FnEnter(p)
    \/ (key[p] \notin H /\ \E e \in Errors : FnReturn(p, e))
    \/ DoDone(p) \/ DoRelock(p) \/ DoDelete(p) \/ DoReturn(p)

\* The Go scheduler runs every runnable goroutine and sync.Mutex hands the lock
\* to every waiter in turn; the operations supplied for key "a" need not return.
HangSpec == Spec /\ \A p \in Callers : SF_vars(Step(p, {"a"}) /\ UNCHANGED avars)

CacheInit ==
    /\ GroupInit
    /\ RingNew(0, [s \in HashInputs(0) |-> 0])
    /\ \E n \in 0..MaxCap, made \in BOOLEAN, cb \in BOOLEAN : CacheCreated(n, made, cb)

CacheNext ==
    \/ \E k \in CKeys, v \in Values : Add(k, v) /\ UNCHANGED <<gvars, got, added, hvars>>
    \/ AddEvict /\ UNCHANGED <<gvars, got, added, hvars>>
    \/ \E k \in CKeys : Get(k) /\ UNCHANGED <<gvars, got, added, hvars>>
    \/ \E k \in CKeys : Remove(k) /\ UNCHANGED <<gvars, got, added, hvars>>
    \/ RemoveOldest /\ UNCHANGED <<gvars, got, added, hvars>>
    \/ Clear /\ UNCHANGED <<gvars, got, added, hvars>>
    \/ ClearReset /\ UNCHANGED <<gvars, got, added, hvars>>

CacheSpec == CacheInit /\ [][CacheNext]_vars

\* The same operations, with got recording the latest Get hit that found two
\* or more entries: forgotten at an eviction (RemoveOldest, capacity) and when
\* its key is removed.
TrackedNext ==
    \/ \E k \in CKeys, v \in Values : Add(k, v) /\ UNCHANGED <<gvars, got, added, hvars>>
    \/ AddEvict /\ got' = NoKey /\ UNCHANGED <<gvars, added, hvars>>
    \/ \E k \in CKeys :
          /\ Get(k)
          /\ got' = IF k \in Present /\ CacheLen >= 2 THEN k ELSE got
          /\ UNCHANGED <<gvars, added, hvars>>
    \/ \E k \in CKeys : Remove(k) /\ got' = (IF k = got THEN NoKey ELSE got)
                           /\ UNCHANGED <<gvars, added, hvars>>
    \/ RemoveOldest /\ got' = (IF CacheLen > 0 THEN NoKey ELSE got) /\ UNCHANGED <<gvars, added, hvars>>
    \/ Clear /\ got' = NoKey /\ UNCHANGED <<gvars, added, hvars>>
    \/ ClearReset /\ UNCHANGED <<gvars, got, added, hvars>>

TrackedSpec == CacheInit /\ [][TrackedNext]_vars

\* Add and Get alone, with added recording the keys and values passed to Add
AddGetNext ==
    \/ \E k \in CKeys, v \in Values :
          /\ Add(k, v)
          /\ added' = [x \in (DOMAIN added) \cup {k} |-> IF x = k THEN v ELSE added[x]]
          /\ UNCHANGED <<gvars, got, hvars>>
    \/ AddEvict /\ UNCHANGED <<gvars, got, added, hvars>>
    \/ \E k \in CKeys : Get(k) /\ UNCHANGED <<gvars, got, added, hvars>>

AddGetSpec == CacheInit /\ [][AddGetNext]_vars

RingInit ==
    /\ GroupInit
    /\ CacheCreated(0, TRUE, FALSE)
    /\ \E r \in ReplicaCounts : \E fn \in [HashInputs(r) -> HashValues] : RingNew(r, fn)

RingNext ==
    \/ \E nodes \in NodeLists : RingAdd(nodes) /\ UNCHANGED <<gvars, cvars, got, added>>
    \/ \E k \in RKeys : RingGet(k) /\ UNCHANGED <<gvars, cvars, got, added>>

RingSpec == RingInit /\ [][RingNext]_vars

(***************************************************************************)
(* Properties of Group.Do                                                   *)
(***************************************************************************)
\* the goroutine is the executor of a registered call: between g.m[key] = c
\* (line 60) and delete(g.m, key) (line 71)
Holds(p) == pc[p] \in {"call", "infn", "signal", "relock", "delete"}

\* the call records registered in g.m
Registered == {m.tab[k] : k \in DOMAIN m.tab}

\* the goroutines that have returned from a Do call for key k
Returned(k) == {p \in Callers : pc[p] = "done" /\ key[p] = k}

\* C1 as stated: K concurrent Do calls for one key, one call each, invoke the
\* operation exactly once in total and all return the identical pair.
C1_OnceForConcurrentCalls ==
    \A k \in GKeys :
        (\A p \in Callers : /\ pc[p] = "done" /\ key[p] = k /\ ncalls[p] = 1
                            /\ overlap[p] = Callers \ {p})
        => /\ count[k] = 1
           /\ \A p, q \in Callers : ret[p] = ret[q]

\* C1 (amended): the operation is invoked once for each call record, by the
\* call that registered it and never by a call that found a record; every
\* call that has returned returns the pair stored in its completed record, so
\* all calls attached to one record return the identical pair.
C1_OncePerRecord ==
    /\ \A p \in Callers : pc[p] = "done" =>
          /\ c[p] \in 1..Len(calls)
          /\ calls[c[p]].wg = 0
          /\ ret[p] = Result(c[p])
    /\ \A p, q \in Callers : pc[p] = "done" /\ pc[q] = "done" /\ c[p] = c[q] => ret[p] = ret[q]
    /\ \A p \in Callers : pc[p] = "wait" => ~ran[p] /\ c[p] \in 1..Len(calls)
    /\ \A p, q \in Callers : p # q /\ ran[p] /\ ran[q] => c[p] # c[q]
    /\ SumOver(count, GKeys) = Len(calls) - Cardinality({p \in Callers : pc[p] = "call"})

\* two calls for one key that overlapped share one record and one invocation
C1_Witness ==
    \E p, q \in Callers :
        /\ p # q /\ pc[p] = "done" /\ pc[q] = "done" /\ key[p] = key[q]
        /\ q \in overlap[p] /\ c[p] = c[q] /\ ran[p] /\ ~ran[q]
        /\ count[key[p]] = 1 /\ ret[q] = <<1, "boom">>

\* C2: for each key at most one goroutine is the executor of a registered
\* call; the record registered for the key is that executor's own record, from
\* its registration until its delete, so a second executor registers only
\* after the delete and a delete removes only the executor's own record.
C2_OneExecutorPerKey ==
    /\ \A p \in Callers : Holds(p) =>
          /\ m.made
          /\ key[p] \in DOMAIN m.tab
          /\ m.tab[key[p]] = c[p]
    /\ \A p, q \in Callers : p # q /\ Holds(p) /\ Holds(q) => key[p] # key[q] /\ c[p] # c[q]
    /\ \A k \in GKeys : Cardinality({p \in Callers : pc[p] = "infn" /\ key[p] = k}) <= 1
    /\ \A k \in DOMAIN m.tab : m.tab[k] \in 1..Len(calls)

\* a second executor for a key, about to delete its own record, after the
\* first executor of that key has deleted its record and returned
C2_Witness ==
    \E p, q \in Callers :
        /\ p # q /\ key[p] = key[q]
        /\ pc[p] = "done" /\ ran[p]
        /\ pc[q] = "delete" /\ c[q] # c[p] /\ m.tab[key[q]] = c[q]

\* C3: a Do call for a key that overlapped no other call for that key invokes
\* the operation itself, on a record allocated after it began, and returns that
\* execution's result, which no other returned call for the key has.
C3_FreshAfterReturn ==
    \A p \in Callers : pc[p] = "done" /\ overlap[p] = {} =>
        /\ ran[p]
        /\ c[p] > entry[p].len
        /\ ret[p] = Result(c[p])
        /\ \A q \in Returned(key[p]) \ {p} : ret[q][1] # ret[p][1]

\* a call made after an earlier call for the key had returned: the second
\* invocation, returned next to the first one's result
C3_Witness ==
    \E p, q \in Callers :
        /\ p # q /\ pc[p] = "done" /\ pc[q] = "done" /\ key[p] = key[q]
        /\ overlap[p] = {} /\ entry[p].len = 1 /\ entry[p].live = NoCall
        /\ ret[q][1] = 1 /\ ret[p][1] = 2 /\ ran[p]

\* C4 as stated: a call that enters after an operation returned and signalled
\* never attaches to the completed record and executes the operation again.
C4_NoAttachAfterCompletion ==
    /\ \A p \in Callers : c[p] # NoCall =>
          ~(c[p] <= entry[p].len /\ (c[p] # entry[p].live \/ entry[p].signalled))
    /\ \A p \in Callers : pc[p] = "done" /\ entry[p].signalled => ran[p]

\* C4 (amended): a completed record stays registered only until its
\* executor's delete, which precedes the executor's return; a call never
\* attaches to a record that had been removed when the call began (it takes
\* the record registered then or a later one); a call that began between the
\* signal and the delete and attached to the completed record returns that
\* record's result without executing.
C4_RemovedBeforeReturn ==
    /\ \A k \in DOMAIN m.tab : calls[m.tab[k]].wg = 0 =>
          \E q \in Callers : pc[q] \in {"relock", "delete"} /\ c[q] = m.tab[k]
    /\ \A p \in Callers : pc[p] \in {"return", "done"} /\ ran[p] => c[p] \notin Registered
    /\ \A p \in Callers : c[p] # NoCall => c[p] > entry[p].len \/ c[p] = entry[p].live
    /\ \A p \in Callers : pc[p] = "done" /\ entry[p].signalled /\ c[p] = entry[p].live =>
          ~ran[p] /\ ret[p] = Result(entry[p].live)

\* a call that began after the completion signal and before the delete has
\* returned the completed record's result without executing
C4_Witness ==
    \E p \in Callers :
        /\ pc[p] = "done" /\ entry[p].signalled /\ c[p] = entry[p].live
        /\ ~ran[p] /\ ret[p][1] = 1

\* C5: the mutex is held exactly at the registry lookup (lines 48-61) and at
\* the delete (line 71), never while an operation runs or a caller waits.
C5_LockOnlyForBookkeeping ==
    /\ mu \in Callers \cup {NoOne}
    /\ \A p \in Callers : mu = p <=> pc[p] \in {"check", "delete"}
    /\ \A p \in Callers : pc[p] \in {"call", "infn", "signal", "wait"} => mu # p

\* C5, progress: whatever the operations for "a" do, a Do call for "b" returns
C5_OtherKeyReturns ==
    \A q \in Callers : (InCall(q) /\ key[q] = "b") ~> (pc[q] = "done")

\* while an executor for "a" is inside its operation, a call for "b" that
\* began after the executor registered has run its own operation and returned
C5_Witness ==
    \E p, q \in Callers :
        /\ pc[p] = "infn" /\ key[p] = "a"
        /\ key[q] = "b" /\ pc[q] = "done" /\ ran[q]
        /\ entry[q].len >= c[p] /\ c[q] > c[p] /\ mu = NoOne

\* the pair an operation stored in record r, once it has returned
Produced(r) == <<calls[r].val, calls[r].err>>

\* the operation whose result record r holds has returned
Completed(r) == calls[r].val # NilVal

\* C14, the waiter: a caller that found a record returns only when the
\* operation of that record has returned and the completion was signalled,
\* with the pair the operation produced, and without invoking anything
C14_WaiterReturn ==
    \A p \in Callers : (pc[p] = "wait" /\ pc'[p] = "done") =>
        /\ Completed(c[p]) /\ calls[c[p]].wg = 0
        /\ ret'[p] = Produced(c[p])
        /\ ~ran[p] /\ ~ran'[p]
        /\ UNCHANGED <<count, calls, m, mu>>

\* C14, the executor: it returns the pair its operation produced
C14_ExecutorReturn ==
    \A p \in Callers : (pc[p] = "return" /\ pc'[p] = "done") =>
        /\ ran[p] /\ Completed(c[p])
        /\ ret'[p] = Produced(c[p])
        /\ UNCHANGED <<count, calls>>

\* C14, the record: the pair of a completed record never changes, and only
\* the return of the executor's operation completes a record
C14_RecordKept ==
    \A r \in 1..Len(calls) :
        /\ Completed(r) => Produced(r)' = Produced(r)
        /\ ~Completed(r) /\ Completed(r)' =>
              \E p \in Callers : /\ pc[p] = "infn" /\ pc'[p] = "signal" /\ c[p] = r
                                  /\ calls'[r].val = count[key[p]]

\* C14: a caller that finds a record for its key never invokes its own
\* operation, does not return before the executor's operation has returned,
\* and returns exactly the value and error that operation produced, as the
\* executor does; no error is substituted or added.
C14_WaiterGetsExecutorResult ==
    [][C14_WaiterReturn /\ C14_ExecutorReturn /\ C14_RecordKept]_vars

\* a waiter has returned the failure of the executor's operation, before the
\* executor, which is about to take the lock again, has returned
C14_Witness ==
    \E p, q \in Callers :
        /\ p # q /\ pc[p] = "relock" /\ ran[p] /\ c[q] = c[p]
        /\ pc[q] = "done" /\ ~ran[q] /\ ~entry[q].signalled
        /\ Produced(c[p]) = <<1, "boom">> /\ ret[q] = <<1, "boom">>

\* C15, at rest: when no goroutine is inside Do the registry holds no record
C15_Drained == (\A p \in Callers : ~InCall(p)) => DOMAIN m.tab = {}

\* C15, the hang: while an executor's operation has not returned, the key's
\* record is registered and not signalled, and every other caller attached to
\* it is blocked in Wait
C15_Blocked ==
    \A p \in Callers : pc[p] \in {"call", "infn"} =>
        /\ MapHas(m, key[p]) /\ m.tab[key[p]] = c[p]
        /\ calls[c[p]].wg = 1
        /\ \A q \in Callers \ {p} : c[q] = c[p] => pc[q] = "wait"

\* C15, progress: each goroutine is outside Do again and again, unless from
\* some point on an operation never returns
C15_Returns ==
    \A p \in Callers :
        \/ []<>(~InCall(p))
        \/ \E q \in Callers : <>[](pc[q] = "infn")

\* C15: under fair scheduling, if every operation returns then every Do call
\* returns, and when all have returned the registry is empty; as long as an
\* executor's operation does not return, its waiters stay blocked and the
\* key's record stays registered.
C15_ReturnsUnlessHung == []C15_Drained /\ []C15_Blocked /\ C15_Returns

\* a waiter blocked on the record of an executor that is inside its operation
C15_Witness ==
    \E p, q \in Callers :
        /\ pc[p] = "infn" /\ key[p] = "a" /\ pc[q] = "wait" /\ c[q] = c[p]
        /\ m.tab["a"] = c[p] /\ calls[c[p]].wg = 1 /\ mu = NoOne

(***************************************************************************)
(* Properties of Cache                                                      *)
(***************************************************************************)
\* the keys carried by the elements of the list, front first
ListKeys == [i \in 1..Len(ll.l) |-> elems[ll.l[i]].key]

\* the keys whose entry leaves the cache in this step
Leaving == Present \ Present'

\* the OnEvicted invocations made in this step
Invoked == IF cpc = "idle" THEN evicted' ELSE SubSeq(evicted', Len(evicted) + 1, Len(evicted'))

\* this step is a call of Add with a key that is not present
AddsNewKey == cpc = "idle" /\ last'.op = "Add" /\ last'.key \notin Present

\* this step is an eviction: a RemoveOldest that removes an entry, or the
\* removal an Add makes when the capacity is exceeded
Evicts ==
    \/ cpc = "evict"
    \/ cpc = "idle" /\ last'.op = "RemoveOldest" /\ Leaving # {}

\* C6, insertion into a full cache: the cache takes the new key, keeps every
\* entry and goes on to the eviction
C6_Insertion ==
    (AddsNewKey /\ MaxEntries > 0 /\ CacheLen = MaxEntries) =>
        /\ cpc' = "evict"
        /\ Present' = Present \cup {last'.key}
        /\ \A k \in Present : ValueOf(k)' = ValueOf(k)
        /\ Invoked = <<>>

\* C6, eviction: exactly the key whose last Add or Get hit is oldest leaves
C6_Eviction ==
    cpc = "evict" =>
        LET victim == Head(touch)
        IN  /\ cpc' = "idle"
            /\ Present' = Present \ {victim}
            /\ victim \in Present /\ victim # last.key /\ last.key \in Present'
            /\ \A k \in Present' : ValueOf(k)' = ValueOf(k)
            /\ CacheLen' = MaxEntries
            /\ OnEvicted => Invoked = << <<victim, ValueOf(victim)>> >>

\* C6: Add of an absent key to a cache of MaxEntries = N > 0 holding N entries
\* evicts exactly the least-recently-used entry, keeps the others and the new
\* key, and leaves Len() = N.
C6_EvictsLeastRecentlyUsed == [][C6_Insertion /\ C6_Eviction]_vars

\* keys 1, 2, 3 added in this order to a cache of capacity 2: key 1 was evicted
C6_Witness ==
    /\ cpc = "idle" /\ last.op = "Add" /\ last.key = 3
    /\ MaxEntries = 2 /\ CacheLen = 2 /\ OnEvicted
    /\ Len(evicted) = 1 /\ evicted[1][1] = 1
    /\ touch = <<2, 3>> /\ Present = {2, 3}

\* C7 as stated: the first eviction (RemoveOldest or capacity) that follows a
\* Get hit on a cache of two or more entries removes another entry than the
\* one the Get found.
C7_NextEvictionSparesGet == [][Evicts /\ got # NoKey => got \notin Leaving]_vars

\* C7, the Get: k moves to the front, the other elements keep their order
C7_Promotion ==
    (cpc = "idle" /\ last'.op = "Get" /\ last'.ok) =>
        LET e == cache.tab[last'.key]
        IN  /\ ll'.l = <<e>> \o Without(ll.l, e)
            /\ last'.value = ValueOf(last'.key)
            /\ UNCHANGED <<cache, elems>>
            /\ Invoked = <<>>

\* C7, the operation after a Get hit on two or more entries: a RemoveOldest
\* removes another entry, and after an Add over the capacity the element about
\* to be evicted is another one
C7_Spared ==
    (cpc = "idle" /\ last.op = "Get" /\ last.ok /\ CacheLen >= 2) =>
        /\ last'.op = "RemoveOldest" => Leaving # {} /\ last.key \notin Leaving
        /\ cpc' = "evict" => ListBack(ll'.l) # cache'.tab[last.key]

\* every eviction removes the key of the last element of the list
C7_Victim == Evicts => Leaving = {elems[ListBack(ll.l)].key}

\* C7 (amended): a Get hit moves k to the front without reordering the others,
\* and an eviction that comes as the next operation removes another entry.
C7_GetPromotes == [][C7_Promotion /\ C7_Spared /\ C7_Victim]_vars

\* after a Get hit on 1, an Add of 3 over the capacity is about to evict 2
C7_Witness ==
    /\ cpc = "evict" /\ last.op = "Add" /\ got = 1 /\ MaxEntries = 2
    /\ ListKeys = <<3, 1, 2>> /\ touch = <<2, 1, 3>>

\* the keys whose entry this step removes by its call: those that leave the
\* cache in the step, and for Clear, whose entries leave in its second step,
\* all those present at its first
Removing ==
    IF cpc' = "clear" THEN Present
    ELSE IF cpc = "clear" THEN {}
    ELSE Leaving

\* C8: each step invokes the callback once for each entry it removes, with
\* that entry's key and value, and not otherwise; the invocations a call made
\* before are kept.
C8_Step ==
    /\ cpc # "idle" => SubSeq(evicted', 1, Len(evicted)) = evicted
    /\ IF OnEvicted
       THEN /\ Len(Invoked) = Cardinality(Removing)
            /\ {Invoked[i] : i \in 1..Len(Invoked)} = {<<k, ValueOf(k)>> : k \in Removing}
       ELSE Invoked = <<>>
    /\ cpc = "clear" => Leaving = {evicted[i][1] : i \in 1..Len(evicted)} \/ ~OnEvicted
    /\ CacheLen' = CacheLen + Cardinality(Present' \ Present) - Cardinality(Leaving)

C8_CallbackOncePerRemoval == [][C8_Step]_vars

\* Clear has invoked the callback for each of three entries
C8_Witness ==
    /\ OnEvicted /\ last.op = "Clear" /\ Len(evicted) = 3
    /\ {evicted[i][1] : i \in 1..3} = {1, 2, 3}
    /\ evicted[1][1] = 2 /\ CacheLen = 0

\* C9: the list carries each key once, its keys are the keys of the map, each
\* map entry points at the list element carrying its key, and Len() is the
\* number of keys.
C9_ListMatchesMap ==
    /\ cache.nil <=> ll.nil
    /\ \A i, j \in 1..Len(ll.l) : ll.l[i] = ll.l[j] => i = j
    /\ \A i, j \in 1..Len(ll.l) : ListKeys[i] = ListKeys[j] => i = j
    /\ {ListKeys[i] : i \in 1..Len(ll.l)} = DOMAIN cache.tab
    /\ \A k \in DOMAIN cache.tab :
          /\ cache.tab[k] \in ListElems(ll.l)
          /\ cache.tab[k] \in DOMAIN elems
          /\ elems[cache.tab[k]].key = k
    /\ CacheLen = Cardinality(Present)
    /\ DOMAIN elems = ListElems(ll.l)

\* a cache of two entries after a Remove of a present key
C9_Witness ==
    /\ cpc = "idle" /\ last.op = "Remove" /\ last.key = 2
    /\ CacheLen = 2 /\ Present = {1, 3} /\ OnEvicted /\ evicted = << <<2, "x">> >>

\* C10: with MaxEntries = N > 0, Len() <= N between calls; inside Add, after
\* the insertion and before the eviction, the count is N + 1.
C10_LenWithinCapacity ==
    MaxEntries > 0 =>
        /\ cpc = "idle" => CacheLen <= MaxEntries
        /\ cpc = "evict" => CacheLen = MaxEntries + 1 /\ last.op = "Add"

\* inside Add, a cache of capacity 2 holds three entries
C10_Witness == cpc = "evict" /\ MaxEntries = 2 /\ CacheLen = 3

\* C11: with MaxEntries = 0, after any sequence of Add and Get calls every key
\* passed to Add is present with the value of its latest Add, Len() is the
\* number of distinct keys added, and no call has invoked the callback.
C11_UnboundedKeepsAll ==
    MaxEntries = 0 =>
        /\ cpc = "idle"
        /\ Present = DOMAIN added
        /\ \A k \in DOMAIN added : ValueOf(k) = added[k]
        /\ CacheLen = Cardinality(DOMAIN added)
        /\ evicted = <<>>

\* a cache of MaxEntries = 0 with a callback holds three keys, key 1 with the
\* value of its second Add, after a Get
C11_Witness ==
    /\ MaxEntries = 0 /\ OnEvicted /\ CacheLen = 3 /\ last.op = "Get" /\ last.ok
    /\ ListKeys = <<2, 1, 3>> /\ added = <<"y", "x", "x">> /\ ValueOf(1) = "y"

\* C16: Add of a key that is present replaces its value, moves it to the
\* front and returns: the keys, Len() and the order and values of the other
\* entries are unchanged and the callback is not invoked, whatever MaxEntries.
C16_Update ==
    (cpc = "idle" /\ last'.op = "Add" /\ last'.key \in Present) =>
        LET k == last'.key
            e == cache.tab[k]
        IN  /\ last'.ok /\ cpc' = "idle"
            /\ elems'[cache'.tab[k]].value = last'.value
            /\ ll'.l = <<e>> \o Without(ll.l, e)
            /\ cache' = cache
            /\ Present' = Present /\ CacheLen' = CacheLen
            /\ \A x \in Present \ {k} : ValueOf(x)' = ValueOf(x)
            /\ SelectSeq(ListKeys', LAMBDA x : x # k) = SelectSeq(ListKeys, LAMBDA x : x # k)
            /\ evicted' = <<>>

C16_UpdateInPlace == [][C16_Update]_vars

\* in a full cache of capacity 2 the key at the back was given a new value
\* and is at the front
C16_Witness ==
    /\ cpc = "idle" /\ last = [op |-> "Add", key |-> 1, value |-> "y", ok |-> TRUE]
    /\ MaxEntries = 2 /\ OnEvicted /\ CacheLen = 2
    /\ ListKeys = <<1, 3>> /\ ValueOf(1) = "y" /\ ValueOf(3) = "x" /\ evicted = <<>>

\* this step leaves the entries, their order and their values as they are and
\* invokes no callback
NoEffect == UNCHANGED <<ll, cache, elems, touch, cpc, MaxEntries, OnEvicted>> /\ evicted' = <<>>

\* C17: Get of an absent key returns the zero value and false, Remove of an
\* absent key and RemoveOldest on an empty cache return, and none of them
\* changes the entries, their order or Len() or invokes the callback; also on
\* a cache whose list and map are nil (never used, or cleared).
C17_Step ==
    cpc = "idle" =>
        /\ (last'.op = "Get" /\ last'.key \notin Present) =>
               /\ last'.value = NilValue /\ ~last'.ok
               /\ NoEffect
        /\ (last'.op = "Remove" /\ last'.key \notin Present) => NoEffect
        /\ (last'.op = "RemoveOldest" /\ CacheLen = 0) => NoEffect

C17_AbsentIsNoOp == [][C17_Step]_vars

\* on a cache with a callback, a Remove of the absent key 2 has left the two
\* entries and their order and invoked nothing
C17_Witness ==
    /\ last.op = "Remove" /\ last.key = 2 /\ OnEvicted /\ evicted = <<>>
    /\ ListKeys = <<3, 1>> /\ touch = <<1, 3>> /\ CacheLen = 2

\* the cache after Add(k, v) on a Cache just created by New or by a literal
AsOnNew(k, v) ==
    /\ ~ll'.nil /\ ~cache'.nil
    /\ ListKeys' = <<k>> /\ Present' = {k} /\ CacheLen' = 1
    /\ elems'[cache'.tab[k]] = [key |-> k, value |-> v]
    /\ touch' = <<k>> /\ evicted' = <<>> /\ cpc' = "idle"
    /\ UNCHANGED <<MaxEntries, OnEvicted>>

\* C18, the callbacks: made at the first step of Clear, once for each entry,
\* with the entries all still in the cache
C18_Callbacks ==
    (cpc = "idle" /\ last'.op = "Clear") =>
        /\ cpc' = "clear"
        /\ UNCHANGED <<ll, cache, elems>>
        /\ IF OnEvicted
           THEN /\ Len(evicted') = Cardinality(Present)
                /\ {evicted'[i] : i \in 1..Len(evicted')} = {<<k, ValueOf(k)>> : k \in Present}
           ELSE evicted' = <<>>

\* C18, the removal: the second step of Clear removes every entry and invokes
\* nothing more
C18_Removal ==
    cpc = "clear" =>
        /\ cpc' = "idle" /\ last'.op = "Clear"
        /\ Present' = {} /\ CacheLen' = 0 /\ ll'.nil /\ cache'.nil
        /\ UNCHANGED <<evicted, MaxEntries, OnEvicted>>

\* C18, afterwards: the call after a Clear finds no entry: a Get misses, and
\* an Add gives what it gives as the first call on a Cache just created
C18_Afterwards ==
    (cpc = "idle" /\ last.op \in {"Clear", "New"}) =>
        /\ Present = {} /\ CacheLen = 0
        /\ last'.op = "Get" => ~last'.ok /\ last'.value = NilValue
        /\ last'.op = "Add" => AsOnNew(last'.key, last'.value)

\* C18: Clear invokes the callback, if set, once for each entry while the
\* entries are still present, then removes them all: Len() = 0 and every Get
\* misses; a following Add behaves as on a Cache just created with the same
\* MaxEntries and callback.
C18_ClearThenReuse == [][C18_Callbacks /\ C18_Removal /\ C18_Afterwards]_vars

\* inside Clear, the callback has been invoked for both entries, which are
\* still in the cache
C18_Witness ==
    /\ cpc = "clear" /\ last.op = "Clear" /\ OnEvicted /\ MaxEntries = 2
    /\ evicted = << <<3, "x">>, <<1, "y">> >>
    /\ CacheLen = 2 /\ Present = {1, 3} /\ ValueOf(1) = "y"

(***************************************************************************)
(* Properties of Map                                                        *)
(***************************************************************************)
\* the hashes of the virtual points on the ring
Points == {keys[i] : i \in 1..Len(keys)}

\* the node identifiers passed to Add so far
Given == {given[i] : i \in 1..Len(given)}

\* the smallest number of a non-empty set
Min(S) == CHOOSE x \in S : \A y \in S : x <= y

\* the smallest virtual-point hash that is >= h, or the smallest of all when
\* every one is smaller than h
Successor(h) ==
    LET ge == {q \in Points : q >= h}
    IN  IF ge # {} THEN Min(ge) ELSE Min(Points)

\* C12, the node: on a non-empty ring Get returns the node recorded for the
\* successor of the key's hash, and that node was passed to Add
C12_Nearest ==
    ~IsEmpty => \A k \in RKeys : /\ GetNode(k) = hashMap[Successor(hash[k])]
                                 /\ GetNode(k) \in Given

\* C12, stability: the node the last Get returned, with no Add since, is the
\* node a Get of that key returns now
C12_Stable == rlast.op = "Get" => rlast.node = GetNode(rlast.key)

\* C12, frame: a Get leaves the ring as it is
C12_ReadOnly == rlast'.op = "Get" => UNCHANGED <<hash, replicas, keys, hashMap, given>>

\* C12: on a non-empty ring Get(key) returns the node recorded for the smallest
\* virtual-point hash >= hash(key), wrapping to the smallest hash of all; Get
\* does not modify the ring, so a repeated Get returns the same node, which is
\* one of the node identifiers added.
C12_GetSuccessor == [][C12_Nearest' /\ C12_Stable' /\ C12_ReadOnly]_vars

\* on a ring of two nodes with three distinct points, a Get of "k", whose hash
\* is above every point, has wrapped to the node of the smallest point, and a
\* Get of "0a" finds a point that is not the smallest
C12_Witness ==
    /\ replicas = 2 /\ given = <<"b", "a">> /\ Cardinality(Points) = 3
    /\ rlast.op = "Get" /\ rlast.key = "k" /\ \A q \in Points : q < hash["k"]
    /\ rlast.node = "b" /\ hashMap[Min(Points)] = "b"
    /\ GetNode("0a") = "a" /\ hash["0a"] > Min(Points)

\* the number of virtual points the Add calls so far have appended
PointsAdded == (IF replicas > 0 THEN replicas ELSE 0) * Len(given)

\* C13: IsEmpty() is true exactly when no virtual point has been added: on a
\* new ring, and after Add calls that contribute no point (replicas = 0, or no
\* node argument); on an empty ring Get returns the empty string for every key.
C13_EmptyRing ==
    /\ IsEmpty <=> PointsAdded = 0
    /\ rlast.op = "New" => IsEmpty
    /\ IsEmpty => /\ \A k \in RKeys : GetNode(k) = NoNode
                  /\ rlast.op = "Get" => rlast.node = NoNode
                  /\ DOMAIN hashMap = {}

\* a ring of replicas = 0 is empty after Add calls with three node arguments
\* in all, and a Get has returned the empty string
C13_Witness ==
    /\ replicas = 0 /\ Len(given) = 3 /\ IsEmpty
    /\ rlast.op = "Get" /\ rlast.key = "k" /\ rlast.node = ""

\* m.keys is in ascending order
Sorted == \A i \in 1..(Len(keys) - 1) : keys[i] <= keys[i + 1]

\* no hash collision: the names of the virtual points have distinct hashes
NoCollisions ==
    \A i, j \in 0..(replicas - 1), n, o \in RNodes :
        hash[PointName(i, n)] = hash[PointName(j, o)] => i = j /\ n = o

\* the virtual points of a node: the hashes recorded for it
Owned(n) == {h \in Points : hashMap[h] = n}

\* the entries of m.keys that are points of a node
Entries(n) == {i \in 1..Len(keys) : hashMap[keys[i]] = n}

\* the number of times a node identifier was passed to Add
Times(n) == Cardinality({i \in 1..Len(given) : given[i] = n})

\* C19 as stated: after every Add the list is sorted and, with no hash
\* collision, each node identifier owns exactly replicas virtual points, one
\* for each replica index, and the length of the list is replicas times the
\* number of nodes (taken for a replica count that is not negative).
C19_ReplicasPerNode ==
    /\ Sorted
    /\ (replicas >= 0 /\ NoCollisions) =>
          /\ \A n \in Given :
                /\ Owned(n) = {hash[PointName(i, n)] : i \in 0..(replicas - 1)}
                /\ Cardinality(Owned(n)) = replicas
          /\ Len(keys) = replicas * Cardinality(Given)

\* C19 (amended): after every Add the list is sorted and holds one entry for
\* each replica index below replicas and each node argument of the Add calls,
\* repeated arguments included; with no hash collision the hashes recorded for
\* a node identifier are those of its replica indices, and the list holds
\* each of them once for each time the identifier was passed.
C19_SortedPoints ==
    LET r == IF replicas > 0 THEN replicas ELSE 0
    IN  /\ Sorted
        /\ Len(keys) = r * Len(given)
        /\ DOMAIN hashMap = Points
        /\ \A h \in Points : hashMap[h] \in Given
        /\ NoCollisions =>
              \A n \in Given :
                  /\ Owned(n) = {hash[PointName(i, n)] : i \in 0..(replicas - 1)}
                  /\ Cardinality(Owned(n)) = r
                  /\ Cardinality(Entries(n)) = r * Times(n)
                  /\ \A h \in Owned(n) :
                        Cardinality({i \in 1..Len(keys) : keys[i] = h}) = Times(n)

\* with two replicas and no collision, node "a" passed twice and node "b"
\* once: six entries, four distinct points, two of these the points of "a"
C19_Witness ==
    /\ replicas = 2 /\ NoCollisions /\ given = <<"a", "b", "a">> /\ rlast.op = "Add"
    /\ Len(keys) = 6 /\ Cardinality(Points) = 4 /\ Cardinality(Owned("a")) = 2
    /\ Cardinality(Entries("a")) = 4 /\ keys[1] < keys[6]

\* the node identifiers passed to the Add call of this step
Newcomers == {given'[i] : i \in (Len(given) + 1)..Len(given')}

\* C20 as stated: after an Add, Get(key) returns the node it returned before
\* or a node passed to that Add, and no key moves from one node that was
\* present to another node that was present.
C20_OnlyToNewcomers ==
    [][rlast'.op = "Add" =>
          \A k \in RKeys :
              /\ GetNode(k)' \in {GetNode(k)} \cup Newcomers
              /\ GetNode(k)' # GetNode(k) => GetNode(k)' \notin Given]_vars

\* C20 (amended): after an Add, Get(key) returns the node it returned before
\* or a node passed to that Add, and on a ring that was empty a node passed to
\* that Add if the ring is no longer empty; a key moves to a node that was
\* present only if that node is passed to the Add again and a hash collides.
C20_Step ==
    rlast'.op = "Add" =>
        \A k \in RKeys :
            /\ GetNode(k)' \in {GetNode(k)} \cup Newcomers
            /\ (IsEmpty /\ ~IsEmpty') => GetNode(k)' \in Newcomers
            /\ (GetNode(k)' # GetNode(k) /\ GetNode(k)' \in Given) =>
                  /\ GetNode(k)' \in Newcomers
                  /\ ~NoCollisions

C20_MovesToAdded == [][C20_Step]_vars

\* after Add("b") on the ring of node "a", with no collision, the key "k",
\* which has the hash of a point of "b", is with "b" and the key "0a" has
\* stayed with "a"
C20_Witness ==
    /\ given = <<"a", "b">> /\ rlast.op = "Add" /\ rlast.nargs = 1
    /\ replicas = 2 /\ NoCollisions
    /\ hash["k"] = hash["0b"] /\ GetNode("k") = "b" /\ GetNode("0a") = "a"

====
